---- MODULE Spec2Model ----
(***************************************************************************)
(* The task/token lifecycle of the single-use file relay (src/main.py):    *)
(* the three in-memory registries, the blob files on disk, the four HTTP   *)
(* handlers and the deferred burn.  Handlers are `async def` and run on    *)
(* one event loop, so the code between two awaits is one atomic step; the  *)
(* upload's writes, the response stream and the background _delete_task   *)
(* (run in a worker thread after the response) are steps of their own.    *)
(***************************************************************************)
EXTENDS Integers, FiniteSets, Sequences, TLC

\* ------------------------------------------------------------------ bounds
MaxTime == 4
MaxTasks == 1
MaxTokens == 2

\* ----------------------------------------------------------- configuration
\* Read from the environment at start-up (os.getenv); the model runs with a
\* small setting of each, in clock ticks, keeping TASK_TTL > TOKEN_TTL as the
\* defaults (3600 > 600) do.
ONE_TIME_TOKEN_TTL_SECONDS == 2
TASK_TTL_SECONDS == 3
MAX_UPLOAD_BYTES == 1

\* Header values: 0 is an absent or empty header (None, ""), LongSecret the
\* provisioned UPLOAD_TOKEN, 1..MaxTokens the strings secrets.token_hex makes.
NoHeader == 0
LongSecret == -1
NoLength == -1

TokenIds == 1..MaxTokens
TaskIds == 1..MaxTasks
\* Task ids a caller may ask for: the ones uuid4 makes and one it never makes.
RequestIds == 1..(MaxTasks + 1)
Times == 1..MaxTime
HeaderValues == {NoHeader, LongSecret} \cup TokenIds
ContentLengths == {NoLength, MAX_UPLOAD_BYTES, MAX_UPLOAD_BYTES + 1}

VARIABLES
    UPLOAD_TOKEN,      \* the configured long-lived secret, NoHeader when unset
    now,               \* time.time()
    tasks,             \* task_id -> [file_path, burn_on_download, created_at]
    one_time_tokens,   \* token -> expire_at
    download_tokens,   \* token -> [task_id, expire_at]
    disk,              \* file path -> "partial" | "complete"
    nextToken,         \* the next string secrets.token_hex returns
    nextTask,          \* the next uuid4
    uploads,           \* task_id -> [tok]: upload_file suspended in the write
    responses,         \* token -> [task_id, pc, burn, sent]: FileResponse in flight
    issued,            \* history: token -> [kind, task_id, issued_at, after]
    redeemed,          \* history: token -> successful redemptions (capped at 2)
    delivered,         \* history: task_id -> streams fully handed off (capped at 2)
    last               \* history: the last request and its outcome

vars == <<UPLOAD_TOKEN, now, tasks, one_time_tokens, download_tokens, disk,
          nextToken, nextTask, uploads, responses, issued, redeemed, delivered, last>>

\* ----------------------------------------------------------------- helpers
Restrict(f, S) == [k \in S |-> f[k]]

Remove(f, k) == [j \in DOMAIN f \ {k} |-> f[j]]

Put(f, k, v) == [j \in DOMAIN f \cup {k} |-> IF j = k THEN v ELSE f[j]]

Bump(c) == IF c < 2 THEN c + 1 ELSE 2

ClockReads == {n \in {now, now + 1} : n <= MaxTime}

\* ---------------------------------------------------------- cleanup helpers
\* os.remove of an existing path; a missing path is left alone.
_delete_file_quiet(d, path) == Remove(d, path)

\* A mutant of _cleanup_expired_one_time_tokens: the comparison is strict, so
\* a token is kept at the instant it expires.
_cleanup_expired_one_time_tokens_strict(ott, n) ==
    Restrict(ott, {t \in DOMAIN ott : ~(ott[t] < n)})

_cleanup_expired_one_time_tokens(ott, n) ==
    Restrict(ott, {t \in DOMAIN ott : ~(ott[t] <= n)})

\* A mutant of _cleanup_expired_download_tokens: the sweep runs one tick ahead
\* and takes entries that have not expired yet.
_cleanup_expired_download_tokens_early(dt, n) ==
    Restrict(dt, {t \in DOMAIN dt : ~(dt[t].expire_at <= n + 1)})

_cleanup_expired_download_tokens(dt, n) ==
    Restrict(dt, {t \in DOMAIN dt : ~(dt[t].expire_at <= n)})

\* A mutant of expired_ids: the comparison is strict, so a task is kept at
\* the instant its retention ends.
expired_ids_strict(tk, n) ==
    {i \in DOMAIN tk : tk[i].created_at # 0 /\ (tk[i].created_at + TASK_TTL_SECONDS) < n}

expired_ids(tk, n) ==
    {i \in DOMAIN tk : tk[i].created_at # 0 /\ (tk[i].created_at + TASK_TTL_SECONDS) <= n}

\* The registry and the disk after _cleanup_expired_tasks at clock reading n.
_cleanup_expired_tasks(tk, d, n) ==
    [tasks |-> Restrict(tk, DOMAIN tk \ expired_ids(tk, n)),
     disk  |-> Restrict(d, DOMAIN d \ {tk[i].file_path : i \in expired_ids(tk, n)})]

\* A mutant of _delete_task: the file is removed, the record is kept.
_delete_task_kept(tk, d, task_id) ==
    IF task_id \notin DOMAIN tk
    THEN [tasks |-> tk, disk |-> d]
    ELSE [tasks |-> tk, disk |-> _delete_file_quiet(d, tk[task_id].file_path)]

\* The registry and the disk after _delete_task run in one piece (the callers
\* on the event loop).
_delete_task(tk, d, task_id) ==
    IF task_id \notin DOMAIN tk
    THEN [tasks |-> tk, disk |-> d]
    ELSE [tasks |-> Remove(tk, task_id), disk |-> _delete_file_quiet(d, tk[task_id].file_path)]

\* ------------------------------------------------------------ authorization
\* n1 is the clock the sweep reads, n2 >= n1 the one the expiry check reads.

\* A mutant of authorize_upload_token: the one-time token is not deleted when
\* it is accepted.
authorize_upload_token_keep(ott, secret, x, n1, n2) ==
    IF secret = NoHeader THEN [res |-> "RuntimeError", ott |-> ott]
    ELSE IF x = NoHeader THEN [res |-> "Unauthorized", ott |-> ott]
    ELSE IF x = secret THEN [res |-> "long", ott |-> ott]
    ELSE LET swept == _cleanup_expired_one_time_tokens(ott, n1) IN
         IF x \notin DOMAIN swept THEN [res |-> "Unauthorized", ott |-> swept]
         ELSE IF swept[x] <= n2 THEN [res |-> "Unauthorized", ott |-> Remove(swept, x)]
         ELSE [res |-> "one_time", ott |-> swept]

\* A mutant of authorize_upload_token: the expiry check is strict, so a token
\* is still taken at its expiry instant.
authorize_upload_token_late(ott, secret, x, n1, n2) ==
    IF secret = NoHeader THEN [res |-> "RuntimeError", ott |-> ott]
    ELSE IF x = NoHeader THEN [res |-> "Unauthorized", ott |-> ott]
    ELSE IF x = secret THEN [res |-> "long", ott |-> ott]
    ELSE LET swept == _cleanup_expired_one_time_tokens(ott, n1) IN
         IF x \notin DOMAIN swept THEN [res |-> "Unauthorized", ott |-> swept]
         ELSE IF swept[x] < n2 THEN [res |-> "Unauthorized", ott |-> Remove(swept, x)]
         ELSE [res |-> "one_time", ott |-> Remove(swept, x)]

\* A mutant of authorize_upload_token: the registry is swept before the header
\* is compared with the long-lived secret.
authorize_upload_token_sweepfirst(ott, secret, x, n1, n2) ==
    IF secret = NoHeader THEN [res |-> "RuntimeError", ott |-> ott]
    ELSE IF x = NoHeader THEN [res |-> "Unauthorized", ott |-> ott]
    ELSE LET swept == _cleanup_expired_one_time_tokens(ott, n1) IN
         IF x = secret THEN [res |-> "long", ott |-> swept]
         ELSE IF x \notin DOMAIN swept THEN [res |-> "Unauthorized", ott |-> swept]
         ELSE IF swept[x] <= n2 THEN [res |-> "Unauthorized", ott |-> Remove(swept, x)]
         ELSE [res |-> "one_time", ott |-> Remove(swept, x)]

authorize_upload_token(ott, secret, x, n1, n2) ==
    IF secret = NoHeader THEN [res |-> "RuntimeError", ott |-> ott]
    ELSE IF x = NoHeader THEN [res |-> "Unauthorized", ott |-> ott]
    ELSE IF x = secret THEN [res |-> "long", ott |-> ott]
    ELSE LET swept == _cleanup_expired_one_time_tokens(ott, n1) IN
         IF x \notin DOMAIN swept THEN [res |-> "Unauthorized", ott |-> swept]
         ELSE IF swept[x] <= n2 THEN [res |-> "Unauthorized", ott |-> Remove(swept, x)]
         ELSE [res |-> "one_time", ott |-> Remove(swept, x)]

\* A mutant of _authorize_download_token: the token is not deleted when it is
\* accepted.
_authorize_download_token_keep(dt, x, task_id, n1, n2) ==
    IF x = NoHeader THEN [res |-> "Unauthorized", dt |-> dt]
    ELSE LET swept == _cleanup_expired_download_tokens(dt, n1) IN
         IF x \notin DOMAIN swept \/ swept[x].task_id # task_id
         THEN [res |-> "Unauthorized", dt |-> swept]
         ELSE IF swept[x].expire_at <= n2
         THEN [res |-> "Unauthorized", dt |-> Remove(swept, x)]
         ELSE [res |-> "ok", dt |-> swept]

\* A mutant of _authorize_download_token: the bound task id is not compared
\* with the one asked for.
_authorize_download_token_anytask(dt, x, task_id, n1, n2) ==
    IF x = NoHeader THEN [res |-> "Unauthorized", dt |-> dt]
    ELSE LET swept == _cleanup_expired_download_tokens(dt, n1) IN
         IF x \notin DOMAIN swept
         THEN [res |-> "Unauthorized", dt |-> swept]
         ELSE IF swept[x].expire_at <= n2
         THEN [res |-> "Unauthorized", dt |-> Remove(swept, x)]
         ELSE [res |-> "ok", dt |-> Remove(swept, x)]

\* A mutant of _authorize_download_token: expiry is left to the sweep, the
\* check after it is missing.
_authorize_download_token_nocheck(dt, x, task_id, n1, n2) ==
    IF x = NoHeader THEN [res |-> "Unauthorized", dt |-> dt]
    ELSE LET swept == _cleanup_expired_download_tokens(dt, n1) IN
         IF x \notin DOMAIN swept \/ swept[x].task_id # task_id
         THEN [res |-> "Unauthorized", dt |-> swept]
         ELSE [res |-> "ok", dt |-> Remove(swept, x)]

\* A mutant of _authorize_download_token: the token is deleted as soon as it
\* is found, before its binding is compared.
_authorize_download_token_eager(dt, x, task_id, n1, n2) ==
    IF x = NoHeader THEN [res |-> "Unauthorized", dt |-> dt]
    ELSE LET swept == _cleanup_expired_download_tokens(dt, n1) IN
         IF x \notin DOMAIN swept
         THEN [res |-> "Unauthorized", dt |-> swept]
         ELSE IF swept[x].task_id # task_id \/ swept[x].expire_at <= n2
         THEN [res |-> "Unauthorized", dt |-> Remove(swept, x)]
         ELSE [res |-> "ok", dt |-> Remove(swept, x)]

_authorize_download_token(dt, x, task_id, n1, n2) ==
    IF x = NoHeader THEN [res |-> "Unauthorized", dt |-> dt]
    ELSE LET swept == _cleanup_expired_download_tokens(dt, n1) IN
         IF x \notin DOMAIN swept \/ swept[x].task_id # task_id
         THEN [res |-> "Unauthorized", dt |-> swept]
         ELSE IF swept[x].expire_at <= n2
         THEN [res |-> "Unauthorized", dt |-> Remove(swept, x)]
         ELSE [res |-> "ok", dt |-> Remove(swept, x)]

\* A mutant of _issue_download_token: the credential is stored without the
\* task id it is issued for.
_issue_download_token_unbound(dt, token, task_id, n) ==
    Put(_cleanup_expired_download_tokens(dt, n), token,
        [task_id |-> 0, expire_at |-> n + ONE_TIME_TOKEN_TTL_SECONDS])

_issue_download_token(dt, token, task_id, n) ==
    Put(_cleanup_expired_download_tokens(dt, n), token,
        [task_id |-> task_id, expire_at |-> n + ONE_TIME_TOKEN_TTL_SECONDS])

\* ------------------------------------------------------------------ history
Prior(x) == IF x \in TokenIds THEN redeemed[x] ELSE 0

\* The request handled in the latest step: its inputs, its response, the clock
\* its expiry check read, and what the registries held when it came in.
Outcome(op, x, task_id, res, n) ==
    [op |-> op, tok |-> x, task |-> task_id, res |-> res, n |-> n, prior |-> Prior(x),
     had |-> task_id \in DOMAIN tasks, cl |-> NoLength]

\* No request was handled in the latest step.
NoOutcome ==
    [op |-> "none", tok |-> NoHeader, task |-> 0, res |-> "none", n |-> 0, prior |-> 0,
     had |-> FALSE, cl |-> NoLength]

Redeem(x) == [redeemed EXCEPT ![x] = Bump(@)]

\* What is remembered of a credential when it is issued: `after` says the task
\* it is bound to had already been streamed out once.
Issue(kind, task_id) ==
    [kind |-> kind, task_id |-> task_id, issued_at |-> now,
     after |-> task_id \in TaskIds /\ delivered[task_id] >= 1]

\* --------------------------------------------------------------------- Init
Init ==
    /\ UPLOAD_TOKEN \in {NoHeader, LongSecret}
    /\ now = 1
    /\ tasks = <<>>
    /\ one_time_tokens = <<>>
    /\ download_tokens = <<>>
    /\ disk = <<>>
    /\ nextToken = 1
    /\ nextTask = 1
    /\ uploads = <<>>
    /\ responses = <<>>
    /\ issued = <<>>
    /\ redeemed = [t \in TokenIds |-> 0]
    /\ delivered = [i \in TaskIds |-> 0]
    /\ last = NoOutcome

\* The clock advances between requests.
Tick ==
    /\ now < MaxTime
    /\ now' = now + 1
    /\ UNCHANGED <<UPLOAD_TOKEN, tasks, one_time_tokens, download_tokens, disk, nextToken,
                   nextTask, uploads, responses, issued, redeemed, delivered>>
    /\ last' = NoOutcome

\* Tokens not yet drawn and not owed to an upload that is still writing.
FreeTokens == MaxTokens - (nextToken - 1) - Cardinality(DOMAIN uploads)

\* POST /upload-token
issue_one_time_upload_token(x) ==
    /\ IF UPLOAD_TOKEN = NoHeader
       THEN /\ last' = Outcome("issue", x, 0, "RuntimeError", now)
            /\ UNCHANGED <<one_time_tokens, nextToken, issued>>
       ELSE IF x # UPLOAD_TOKEN
       THEN /\ last' = Outcome("issue", x, 0, "Unauthorized", now)
            /\ UNCHANGED <<one_time_tokens, nextToken, issued>>
       ELSE /\ FreeTokens >= 1
            /\ one_time_tokens' = Put(_cleanup_expired_one_time_tokens(one_time_tokens, now),
                                      nextToken, now + ONE_TIME_TOKEN_TTL_SECONDS)
            /\ nextToken' = nextToken + 1
            /\ issued' = Put(issued, nextToken,
                             Issue("upload", 0))
            /\ last' = Outcome("issue", x, 0, "OK", now)
    /\ UNCHANGED <<UPLOAD_TOKEN, now, tasks, download_tokens, disk, nextTask, uploads,
                   responses, redeemed, delivered>>

\* A mutant of too_large: the declared size is never looked at.
too_large_never(content_length) == FALSE

too_large(content_length) == content_length # NoLength /\ content_length > MAX_UPLOAD_BYTES

\* POST /upload, up to the first await of _save_uploadfile_to_disk: the
\* credential is redeemed, the sweeps run, the size is checked, the blob file
\* is opened for writing.
upload_file(x, content_length, n2) ==
    LET auth == authorize_upload_token(one_time_tokens, UPLOAD_TOKEN, x, now, n2)
        swept == _cleanup_expired_tasks(tasks, disk, n2)
        task_id == nextTask
    IN
    /\ now' = n2
    /\ one_time_tokens' = auth.ott
    /\ IF auth.res \in {"RuntimeError", "Unauthorized"}
       THEN /\ last' = [Outcome("upload", x, 0, auth.res, n2) EXCEPT !.cl = content_length]
            /\ UNCHANGED <<tasks, download_tokens, disk, nextTask, uploads, redeemed>>
       ELSE /\ redeemed' = IF auth.res = "one_time" THEN Redeem(x) ELSE redeemed
            /\ tasks' = swept.tasks
            /\ download_tokens' = _cleanup_expired_download_tokens(download_tokens, n2)
            /\ IF too_large(content_length)
               THEN /\ last' = [Outcome("upload", x, 0, "PayloadTooLarge", n2) EXCEPT !.cl = content_length]
                    /\ disk' = swept.disk
                    /\ UNCHANGED <<nextTask, uploads>>
               ELSE /\ nextTask <= MaxTasks
                    /\ FreeTokens >= 1
                    /\ nextTask' = nextTask + 1
                    /\ disk' = Put(swept.disk, task_id, "partial")
                    /\ uploads' = Put(uploads, task_id, [tok |-> x])
                    /\ last' = [Outcome("upload", x, task_id, "writing", n2) EXCEPT !.cl = content_length]
    /\ UNCHANGED <<UPLOAD_TOKEN, nextToken, responses, issued, delivered>>

\* The write raises an Exception (I/O error): the handler deletes the partial
\* blob and re-raises.
upload_write_error(task_id) ==
    /\ task_id \in DOMAIN uploads
    /\ disk' = _delete_file_quiet(disk, task_id)
    /\ uploads' = Remove(uploads, task_id)
    /\ last' = Outcome("upload_end", uploads[task_id].tok, task_id, "StorageFailure", now)
    /\ UNCHANGED <<UPLOAD_TOKEN, now, tasks, one_time_tokens, download_tokens, nextToken,
                   nextTask, responses, issued, redeemed, delivered>>

\* The request is cancelled while suspended in `await upload_file.read`:
\* asyncio.CancelledError is a BaseException, `except Exception` lets it pass.
upload_cancelled(task_id) ==
    /\ task_id \in DOMAIN uploads
    /\ uploads' = Remove(uploads, task_id)
    /\ last' = Outcome("upload_end", uploads[task_id].tok, task_id, "Cancelled", now)
    /\ UNCHANGED <<UPLOAD_TOKEN, now, tasks, one_time_tokens, download_tokens, disk, nextToken,
                   nextTask, responses, issued, redeemed, delivered>>

\* The last chunk is written and the file closed; the task is registered and
\* its download credential issued.
upload_complete(task_id) ==
    /\ task_id \in DOMAIN uploads
    /\ disk' = Put(disk, task_id, "complete")
    /\ tasks' = Put(tasks, task_id,
                    [file_path |-> task_id, burn_on_download |-> TRUE, created_at |-> now])
    /\ download_tokens' = _issue_download_token(download_tokens, nextToken, task_id, now)
    /\ issued' = Put(issued, nextToken,
                     Issue("download", task_id))
    /\ nextToken' = nextToken + 1
    /\ uploads' = Remove(uploads, task_id)
    /\ last' = Outcome("upload_end", uploads[task_id].tok, task_id, "OK", now)
    /\ UNCHANGED <<UPLOAD_TOKEN, now, one_time_tokens, nextTask, responses, redeemed, delivered>>

\* POST /download-token
reissue_download_token(x, task_id) ==
    LET swept == _cleanup_expired_tasks(tasks, disk, now) IN
    /\ IF UPLOAD_TOKEN = NoHeader
       THEN /\ last' = Outcome("reissue", x, task_id, "RuntimeError", now)
            /\ UNCHANGED <<tasks, disk, download_tokens, nextToken, issued>>
       ELSE IF x # UPLOAD_TOKEN
       THEN /\ last' = Outcome("reissue", x, task_id, "Unauthorized", now)
            /\ UNCHANGED <<tasks, disk, download_tokens, nextToken, issued>>
       ELSE IF task_id \notin DOMAIN swept.tasks
       THEN /\ tasks' = swept.tasks
            /\ disk' = swept.disk
            /\ last' = Outcome("reissue", x, task_id, "NotFound", now)
            /\ UNCHANGED <<download_tokens, nextToken, issued>>
       ELSE IF swept.tasks[task_id].file_path \notin DOMAIN swept.disk
       THEN /\ tasks' = _delete_task(swept.tasks, swept.disk, task_id).tasks
            /\ disk' = _delete_task(swept.tasks, swept.disk, task_id).disk
            /\ last' = Outcome("reissue", x, task_id, "NotFound", now)
            /\ UNCHANGED <<download_tokens, nextToken, issued>>
       ELSE /\ FreeTokens >= 1
            /\ tasks' = swept.tasks
            /\ disk' = swept.disk
            /\ download_tokens' = _issue_download_token(download_tokens, nextToken, task_id, now)
            /\ issued' = Put(issued, nextToken,
                             Issue("download", task_id))
            /\ nextToken' = nextToken + 1
            /\ last' = Outcome("reissue", x, task_id, "OK", now)
    /\ UNCHANGED <<UPLOAD_TOKEN, now, one_time_tokens, nextTask, uploads, responses,
                   redeemed, delivered>>

\* A mutant of FileResponse: the burn is due at once, before the stream.
FileResponse_burn_first(task_id, burn) ==
    [task_id |-> task_id, pc |-> "burn", burn |-> burn, sent |-> FALSE]

\* The response download_file returns: the stream has not started, the burn
\* is a background task of the response; `sent` records that the stream was
\* handed off to its end.
FileResponse(task_id, burn) ==
    [task_id |-> task_id, pc |-> "response", burn |-> burn, sent |-> FALSE]

\* GET /download-file/{task_id}, up to the return of the FileResponse.
download_file(x, task_id, n2) ==
    LET auth == _authorize_download_token(download_tokens, x, task_id, now, n2)
        swept == _cleanup_expired_tasks(tasks, disk, n2)
    IN
    /\ now' = n2
    /\ download_tokens' = auth.dt
    /\ IF auth.res # "ok"
       THEN /\ last' = Outcome("download", x, task_id, "Unauthorized", n2)
            /\ UNCHANGED <<tasks, disk, responses, redeemed>>
       ELSE /\ redeemed' = Redeem(x)
            /\ IF task_id \notin DOMAIN swept.tasks
               THEN /\ tasks' = swept.tasks
                    /\ disk' = swept.disk
                    /\ last' = Outcome("download", x, task_id, "NotFound", n2)
                    /\ UNCHANGED responses
               ELSE IF swept.tasks[task_id].file_path \notin DOMAIN swept.disk
               THEN /\ tasks' = _delete_task(swept.tasks, swept.disk, task_id).tasks
                    /\ disk' = _delete_task(swept.tasks, swept.disk, task_id).disk
                    /\ last' = Outcome("download", x, task_id, "NotFound", n2)
                    /\ UNCHANGED responses
               ELSE /\ tasks' = swept.tasks
                    /\ disk' = swept.disk
                    /\ responses' = Put(responses, x,
                                        FileResponse(task_id,
                                                     swept.tasks[task_id].burn_on_download))
                    /\ last' = Outcome("download", x, task_id, "OK", n2)
    /\ UNCHANGED <<UPLOAD_TOKEN, one_time_tokens, nextToken, nextTask, uploads, issued, delivered>>

\* FileResponse stats and opens the path: a blob deleted since the handler
\* returned ends the response in an error, and no background task runs.
stream_open(x) ==
    /\ x \in DOMAIN responses
    /\ responses[x].pc = "response"
    /\ IF responses[x].task_id \in DOMAIN disk
       THEN responses' = [responses EXCEPT ![x].pc = "streaming"]
       ELSE responses' = Remove(responses, x)
    /\ UNCHANGED <<UPLOAD_TOKEN, now, tasks, one_time_tokens, download_tokens, disk, nextToken,
                   nextTask, uploads, issued, redeemed, delivered>>
    /\ last' = NoOutcome

\* The open file is streamed to its end; the background tasks are due next.
stream_done(x) ==
    /\ x \in DOMAIN responses
    /\ responses[x].pc = "streaming"
    /\ delivered' = [delivered EXCEPT ![responses[x].task_id] = Bump(@)]
    /\ IF responses[x].burn
       THEN responses' = [responses EXCEPT ![x].pc = "burn", ![x].sent = TRUE]
       ELSE responses' = Remove(responses, x)
    /\ UNCHANGED <<UPLOAD_TOKEN, now, tasks, one_time_tokens, download_tokens, disk, nextToken,
                   nextTask, uploads, issued, redeemed>>
    /\ last' = NoOutcome

\* The background _delete_task in its worker thread: looks the task up and
\* removes its file ...
burn_file(x) ==
    /\ x \in DOMAIN responses
    /\ responses[x].pc = "burn"
    /\ IF responses[x].task_id \notin DOMAIN tasks
       THEN /\ responses' = Remove(responses, x)
            /\ UNCHANGED disk
       ELSE /\ disk' = _delete_file_quiet(disk, tasks[responses[x].task_id].file_path)
            /\ responses' = [responses EXCEPT ![x].pc = "burn_record"]
    /\ UNCHANGED <<UPLOAD_TOKEN, now, tasks, one_time_tokens, download_tokens, nextToken,
                   nextTask, uploads, issued, redeemed, delivered>>
    /\ last' = NoOutcome

\* A mutant of burn_record: the background task ends with the record kept.
burn_record_kept(x) ==
    /\ x \in DOMAIN responses
    /\ responses[x].pc = "burn_record"
    /\ responses' = Remove(responses, x)
    /\ UNCHANGED <<UPLOAD_TOKEN, now, tasks, one_time_tokens, download_tokens, disk, nextToken,
                   nextTask, uploads, issued, redeemed, delivered>>
    /\ last' = NoOutcome

\* ... and then deletes the record (a record already gone is passed over).
burn_record(x) ==
    /\ x \in DOMAIN responses
    /\ responses[x].pc = "burn_record"
    /\ tasks' = Restrict(tasks, DOMAIN tasks \ {responses[x].task_id})
    /\ responses' = Remove(responses, x)
    /\ UNCHANGED <<UPLOAD_TOKEN, now, one_time_tokens, download_tokens, disk, nextToken,
                   nextTask, uploads, issued, redeemed, delivered>>
    /\ last' = NoOutcome

Next ==
    \/ Tick
    \/ \E x \in HeaderValues : issue_one_time_upload_token(x)
    \/ \E x \in HeaderValues, cl \in ContentLengths, n2 \in ClockReads : upload_file(x, cl, n2)
    \/ \E i \in TaskIds : upload_write_error(i)
    \/ \E i \in TaskIds : upload_cancelled(i)
    \/ \E i \in TaskIds : upload_complete(i)
    \/ \E x \in HeaderValues, i \in RequestIds : reissue_download_token(x, i)
    \/ \E x \in HeaderValues, i \in RequestIds, n2 \in ClockReads : download_file(x, i, n2)
    \/ \E x \in TokenIds : stream_open(x)
    \/ \E x \in TokenIds : stream_done(x)
    \/ \E x \in TokenIds : burn_file(x)
    \/ \E x \in TokenIds : burn_record(x)

Spec == Init /\ [][Next]_vars

\* The server goes on with a response it has started: the file is opened and
\* streamed, and the response's background task is then run to its end.
\* Requests and the passing of time are under no such obligation.
FairSpec ==
    /\ Init
    /\ [][Next]_vars
    /\ \A x \in TokenIds :
          /\ WF_vars(stream_open(x))
          /\ WF_vars(stream_done(x))
          /\ WF_vars(burn_file(x))
          /\ WF_vars(burn_record(x))

TypeOK ==
    /\ now \in Times
    /\ DOMAIN tasks \subseteq TaskIds
    /\ DOMAIN one_time_tokens \subseteq TokenIds
    /\ DOMAIN download_tokens \subseteq TokenIds
    /\ DOMAIN disk \subseteq TaskIds
    /\ nextToken \in 1..(MaxTokens + 1)
    /\ nextTask \in 1..(MaxTasks + 1)
\* ------------------------------------------------------------------- claims
TokenExpiry(t) == issued[t].issued_at + ONE_TIME_TOKEN_TTL_SECONDS

Presented(kind) == last.tok \in DOMAIN issued /\ issued[last.tok].kind = kind

\* The latest step was an upload presenting a one-time upload token.
UploadAttempt == last.op = "upload" /\ Presented("upload")

\* The latest step was a download presenting a download token with the task
\* id the token was issued for.
DownloadAttempt ==
    last.op = "download" /\ Presented("download") /\ issued[last.tok].task_id = last.task

Accepted == last.res \notin {"Unauthorized", "RuntimeError"}

\* C1: single redemption.  No credential is ever redeemed twice, and of the
\* attempts that present a credential (a download one with its bound task id)
\* before its expiry, the one that finds it unredeemed is accepted and every
\* other one is answered Unauthorized.
C1_SingleRedemption ==
    /\ \A t \in TokenIds : redeemed[t] <= 1
    /\ ((UploadAttempt \/ DownloadAttempt) /\ last.n < TokenExpiry(last.tok))
          => IF last.prior = 0 THEN Accepted ELSE last.res = "Unauthorized"

C1_Witness ==
    /\ DownloadAttempt
    /\ last.n < TokenExpiry(last.tok)
    /\ last.prior = 1
    /\ last.res = "Unauthorized"

\* C2: at-most-one delivery.  No task's payload is streamed out to its end
\* more than once.
C2_AtMostOneDelivery == \A i \in TaskIds : delivered[i] <= 1

\* C3: burn-on-delivery.  A download that presents an unexpired, unredeemed
\* credential reissued after the task's payload had been streamed out once is
\* answered NotFound.
C3_BurnOnDelivery ==
    (DownloadAttempt /\ issued[last.tok].after /\ last.prior = 0
        /\ last.n < TokenExpiry(last.tok))
      => last.res = "NotFound"

\* C4: expiry.  A credential issued at i and presented for the first time at
\* clock reading n is accepted exactly when n < i + TTL, and is otherwise
\* answered Unauthorized, whatever the sweeps have removed by then.
C4_Expiry ==
    ((UploadAttempt \/ DownloadAttempt) /\ last.prior = 0)
      => /\ Accepted <=> last.n < TokenExpiry(last.tok)
         /\ ~Accepted => last.res = "Unauthorized"

C4_Witness ==
    /\ UploadAttempt
    /\ last.prior = 0
    /\ last.n = TokenExpiry(last.tok)
    /\ last.res = "Unauthorized"

\* The download presents an unexpired, unredeemed credential bound to the task
\* asked for, and that task was no longer registered when the request came in.
StaleCredential ==
    /\ DownloadAttempt
    /\ last.prior = 0
    /\ last.n < TokenExpiry(last.tok)
    /\ ~last.had

\* C5 as stated: a still-unexpired download credential whose task is gone
\* fails credential validation (Unauthorized).
C5_StaleCredentialUnauthorized == StaleCredential => last.res = "Unauthorized"

\* C5 as amended: a still-unexpired download credential whose task is gone
\* passes validation and is consumed by it, and the download is answered
\* NotFound with no response stream started.
C5_StaleCredentialNotFound ==
    StaleCredential
      => /\ last.res = "NotFound"
         /\ last.tok \notin DOMAIN download_tokens
         /\ last.tok \notin DOMAIN responses
         /\ redeemed[last.tok] = 1

C5_Witness == StaleCredential /\ last.res = "NotFound"

\* C6: download error outcomes.  A download whose credential is missing,
\* unknown, expired or bound to another task id is answered Unauthorized; one
\* whose credential is valid but whose task is not registered is answered
\* NotFound; neither starts a response stream.
C6_DownloadErrors ==
    [][last'.op = "download" =>
        LET x == last'.tok
            valid == /\ x \in DOMAIN download_tokens
                     /\ download_tokens[x].task_id = last'.task
                     /\ download_tokens[x].expire_at > last'.n
        IN /\ ~valid => last'.res = "Unauthorized"
           /\ (valid /\ last'.task \notin DOMAIN tasks) => last'.res = "NotFound"
           /\ last'.res \in {"Unauthorized", "NotFound"}
                => responses' = responses /\ delivered' = delivered
      ]_vars

C6_Witness ==
    /\ last.op = "download"
    /\ Presented("download")
    /\ issued[last.tok].task_id # last.task
    /\ last.prior = 0
    /\ last.n < TokenExpiry(last.tok)
    /\ last.res = "Unauthorized"

C8_RedeemedBeforeWrite ==
    /\ \A i \in DOMAIN uploads : uploads[i].tok \notin DOMAIN one_time_tokens
    /\ \A t \in TokenIds : redeemed[t] >= 1 => t \notin DOMAIN one_time_tokens
    /\ (UploadAttempt /\ last.prior >= 1) => last.res = "Unauthorized"

\* The retry of an upload whose write failed: the token was redeemed, no
\* upload is writing, nothing is on disk and no download credential was ever
\* issued.
C8_Witness ==
    /\ UploadAttempt
    /\ last.prior = 1
    /\ last.n < TokenExpiry(last.tok)
    /\ last.res = "Unauthorized"
    /\ nextTask > 1
    /\ DOMAIN uploads = {}
    /\ DOMAIN disk = {}
    /\ \A t \in DOMAIN issued : issued[t].kind = "upload"

\* C9: an upload whose write failed or was aborted leaves no partial blob, no
\* task record and no download credential, and every registered task's blob
\* was written to its end.
C9_NoPartialUpload ==
    /\ (last.op = "upload_end" /\ last.res \in {"StorageFailure", "Cancelled"})
          => /\ last.task \notin DOMAIN disk
             /\ last.task \notin DOMAIN tasks
             /\ \A x \in DOMAIN download_tokens : download_tokens[x].task_id # last.task
    /\ \A i \in DOMAIN tasks :
          tasks[i].file_path \in DOMAIN disk => disk[tasks[i].file_path] = "complete"

\* C10: size limit.  An upload that declares a content length above
\* MAX_UPLOAD_BYTES writes nothing to storage, registers no task, issues no
\* download credential, and is answered PayloadTooLarge whenever its
\* credential is good.
C10_SizeLimit ==
    [][(last'.op = "upload" /\ last'.cl # NoLength /\ last'.cl > MAX_UPLOAD_BYTES) =>
        LET x == last'.tok
            good == /\ UPLOAD_TOKEN # NoHeader
                    /\ x # NoHeader
                    /\ \/ x = UPLOAD_TOKEN
                       \/ x \in DOMAIN one_time_tokens /\ one_time_tokens[x] > last'.n
        IN /\ last'.res = IF good THEN "PayloadTooLarge"
                          ELSE IF UPLOAD_TOKEN = NoHeader THEN "RuntimeError"
                          ELSE "Unauthorized"
           /\ DOMAIN disk' \subseteq DOMAIN disk
           /\ \A p \in DOMAIN disk' : disk'[p] = disk[p]
           /\ DOMAIN tasks' \subseteq DOMAIN tasks
           /\ DOMAIN download_tokens' \subseteq DOMAIN download_tokens
           /\ uploads' = uploads
           /\ nextTask' = nextTask
           /\ nextToken' = nextToken
      ]_vars

C10_Witness ==
    /\ last.op = "upload"
    /\ last.cl > MAX_UPLOAD_BYTES
    /\ last.res = "PayloadTooLarge"

\* The entries of a credential registry that have not expired at clock n.
UnexpiredUpload(ott, n) == Restrict(ott, {t \in DOMAIN ott : ott[t] > n})

UnexpiredDownload(dt, n) == Restrict(dt, {t \in DOMAIN dt : dt[t].expire_at > n})

RequestOps == {"issue", "upload", "reissue", "download"}

\* C11 as stated: a request rejected with Unauthorized or PayloadTooLarge
\* leaves the task registry, the blob store and the unexpired upload and
\* download credentials as they were.
C11_RejectionsChangeNothing ==
    [][(last'.op \in RequestOps /\ last'.res \in {"Unauthorized", "PayloadTooLarge"}) =>
        /\ tasks' = tasks
        /\ disk' = disk
        /\ UnexpiredUpload(one_time_tokens', last'.n) = UnexpiredUpload(one_time_tokens, last'.n)
        /\ UnexpiredDownload(download_tokens', last'.n)
              = UnexpiredDownload(download_tokens, last'.n)
      ]_vars

\* C11 as amended: a request rejected with Unauthorized leaves the task
\* registry, the blob store and the unexpired credentials as they were; an
\* upload rejected with PayloadTooLarge has by then redeemed a one-time token
\* it presented and run the retention sweep, and beyond that changes nothing.
C11_UnauthorizedChangesNothing ==
    [][(last'.op \in RequestOps /\ last'.res \in {"Unauthorized", "PayloadTooLarge"}) =>
        LET n == last'.n
            swept == _cleanup_expired_tasks(tasks, disk, n)
        IN /\ UnexpiredDownload(download_tokens', n) = UnexpiredDownload(download_tokens, n)
           /\ uploads' = uploads
           /\ responses' = responses
           /\ IF last'.res = "Unauthorized"
              THEN /\ tasks' = tasks
                   /\ disk' = disk
                   /\ UnexpiredUpload(one_time_tokens', n) = UnexpiredUpload(one_time_tokens, n)
              ELSE /\ tasks' = swept.tasks
                   /\ disk' = swept.disk
                   /\ UnexpiredUpload(one_time_tokens', n)
                         = Restrict(UnexpiredUpload(one_time_tokens, n),
                                    DOMAIN UnexpiredUpload(one_time_tokens, n) \ {last'.tok})
      ]_vars

\* An oversized upload that presented a good one-time token: the token is
\* redeemed and the answer is PayloadTooLarge.
C11_Witness ==
    /\ UploadAttempt
    /\ last.res = "PayloadTooLarge"
    /\ last.prior = 0
    /\ redeemed[last.tok] = 1

\* The latest request's credential was accepted (its sweeps have run).
Admitted(o) == o.res \notin {"Unauthorized", "RuntimeError"}

\* When the task was created: its first download credential is issued in the
\* same step.
CreatedAt(i) ==
    LET at == {issued[t].issued_at : t \in {u \in DOMAIN issued : issued[u].task_id = i}}
    IN CHOOSE m \in at : \A k \in at : m <= k

\* C12: retention sweep.  A download or reissue that is admitted at a clock
\* reading n >= created_at + TASK_TTL_SECONDS of the task it asks for is
\* answered NotFound and leaves neither the record nor the blob; and every
\* admitted upload, download or reissue destroys every record whose
\* created_at + TASK_TTL_SECONDS <= n, with its blob.
C12_RetentionSweep ==
    [][(last'.op \in {"upload", "download", "reissue"} /\ Admitted(last')) =>
        LET n == last'.n
            i == last'.task
        IN /\ (last'.op # "upload" /\ i \in DOMAIN tasks
                 /\ tasks[i].created_at + TASK_TTL_SECONDS <= n)
                => last'.res = "NotFound"
           /\ \A j \in DOMAIN tasks :
                 tasks[j].created_at + TASK_TTL_SECONDS <= n
                   => j \notin DOMAIN tasks' /\ tasks[j].file_path \notin DOMAIN disk'
      ]_vars

\* A download with a good credential finds the task registered but past its
\* retention, and answers NotFound.
C12_Witness ==
    /\ DownloadAttempt
    /\ last.res = "NotFound"
    /\ last.had
    /\ last.n >= CreatedAt(last.task) + TASK_TTL_SECONDS
    /\ last.task \notin DOMAIN tasks
    /\ last.task \notin DOMAIN disk

\* C13: reissue.  With the long-lived secret and a task that is registered,
\* within its retention and has its blob, reissue_download_token answers OK
\* and stores one credential never issued before, bound to that task and
\* expiring ONE_TIME_TOKEN_TTL_SECONDS later; with the secret and no such
\* task it answers NotFound, and without the secret Unauthorized, and in both
\* cases issues nothing.
C13_Reissue ==
    [][(last'.op = "reissue" /\ UPLOAD_TOKEN # NoHeader) =>
        LET i == last'.task
            n == last'.n
            live == /\ i \in DOMAIN tasks
                    /\ ~(tasks[i].created_at + TASK_TTL_SECONDS <= n)
                    /\ tasks[i].file_path \in DOMAIN disk
        IN IF last'.tok # UPLOAD_TOKEN
           THEN /\ last'.res = "Unauthorized"
                /\ download_tokens' = download_tokens
                /\ issued' = issued
           ELSE IF live
           THEN /\ last'.res = "OK"
                /\ \E t \in TokenIds :
                      /\ t \notin DOMAIN issued
                      /\ t \notin DOMAIN download_tokens
                      /\ redeemed[t] = 0
                      /\ DOMAIN issued' = DOMAIN issued \cup {t}
                      /\ DOMAIN download_tokens' \ DOMAIN download_tokens = {t}
                      /\ download_tokens'[t]
                            = [task_id |-> i, expire_at |-> n + ONE_TIME_TOKEN_TTL_SECONDS]
           ELSE /\ last'.res = "NotFound"
                /\ DOMAIN download_tokens' \subseteq DOMAIN download_tokens
                /\ issued' = issued
      ]_vars

\* A reissue answered with a fresh credential that is in the registry,
\* unredeemed and bound to the task asked for.
C13_Witness ==
    /\ last.op = "reissue"
    /\ last.res = "OK"
    /\ \E t \in DOMAIN download_tokens :
          /\ download_tokens[t].task_id = last.task
          /\ issued[t].issued_at = last.n
          /\ redeemed[t] = 0
          /\ t = nextToken - 1

\* C14: burn ordering.  A download's burn is due only once its own stream was
\* handed off to its end, and a step of the burn (the blob deleted, then the
\* record) is always the step of a download whose stream is done.
C14_BurnAfterStream ==
    [][/\ \A x \in DOMAIN responses' :
             responses'[x].pc \in {"burn", "burn_record"} => responses'[x].sent
       /\ (last' = NoOutcome /\ disk' # disk)
             => \E x \in DOMAIN responses :
                   /\ responses[x].pc = "burn"
                   /\ responses[x].sent
                   /\ responses[x].burn
                   /\ responses[x].task_id \in DOMAIN tasks
                   /\ disk' = Remove(disk, tasks[responses[x].task_id].file_path)
       /\ (last' = NoOutcome /\ tasks' # tasks)
             => \E x \in DOMAIN responses :
                   /\ responses[x].pc = "burn_record"
                   /\ responses[x].sent
                   /\ tasks' = Restrict(tasks, DOMAIN tasks \ {responses[x].task_id})
      ]_vars

\* A burn half done: the stream was handed off, the blob is deleted, the
\* record is still there.
C14_Witness ==
    \E x \in DOMAIN responses :
        /\ responses[x].pc = "burn_record"
        /\ responses[x].sent
        /\ delivered[responses[x].task_id] = 1
        /\ responses[x].task_id \in DOMAIN tasks
        /\ responses[x].task_id \notin DOMAIN disk

\* C15: burn liveness.  Every download answered with the file (every task is
\* created burn-on-delivery) is eventually followed by a state where the
\* task's record and its blob are both gone.
C15_BurnEventually ==
    \A i \in TaskIds :
        (last.op = "download" /\ last.res = "OK" /\ last.task = i)
            ~> (i \notin DOMAIN tasks /\ i \notin DOMAIN disk)

\* The task was streamed out once and nothing is in flight any more: record
\* and blob are gone, and retention had not yet run out.
C15_Witness ==
    \E i \in TaskIds :
        /\ delivered[i] = 1
        /\ responses = <<>>
        /\ i \notin DOMAIN tasks
        /\ i \notin DOMAIN disk
        /\ now < CreatedAt(i) + TASK_TTL_SECONDS

\* C16: missing blob.  A download or reissue that is admitted and asks for a
\* task that is in the registry while its file is not on disk is answered
\* NotFound, and the record is gone after the step.
C16_MissingBlob ==
    [][(/\ last'.op \in {"download", "reissue"}
        /\ Admitted(last')
        /\ last'.task \in DOMAIN tasks
        /\ tasks[last'.task].file_path \notin DOMAIN disk)
       => /\ last'.res = "NotFound"
          /\ last'.task \notin DOMAIN tasks'
          /\ tasks[last'.task].file_path \notin DOMAIN disk'
          /\ issued' = issued
      ]_vars

\* A download of a task within retention whose record was there and whose
\* file was not (a burn was between its two deletions): NotFound, record gone.
C16_Witness ==
    /\ last.op = "download"
    /\ last.res = "NotFound"
    /\ last.had
    /\ last.n < CreatedAt(last.task) + TASK_TTL_SECONDS
    /\ last.task \notin DOMAIN tasks
    /\ \E x \in DOMAIN responses : responses[x].task_id = last.task /\ responses[x].pc = "burn_record"

\* C17: the long-lived secret.  Every issue, upload and reissue presenting the
\* configured secret is authorized, at whatever time and however often; the
\* secret stays what it was and nothing is recorded as redeemed; an upload or
\* a reissue leaves the one-time upload registry as it was, and an issue
\* changes it by what it is for: expired entries swept, one fresh token added.
C17_LongLivedSecret ==
    [][(/\ last'.op \in {"issue", "upload", "upload_end", "reissue"}
        /\ UPLOAD_TOKEN # NoHeader
        /\ last'.tok = UPLOAD_TOKEN)
       => /\ Admitted(last')
          /\ UPLOAD_TOKEN' = UPLOAD_TOKEN
          /\ redeemed' = redeemed
          /\ last'.op # "issue" => one_time_tokens' = one_time_tokens
          /\ last'.op = "issue" =>
                /\ last'.res = "OK"
                /\ \E t \in TokenIds \ DOMAIN issued :
                      one_time_tokens' = Put(UnexpiredUpload(one_time_tokens, now), t,
                                             now + ONE_TIME_TOKEN_TTL_SECONDS)
      ]_vars

\* An upload admitted on the secret at the last instant of the clock, the
\* secret having been used before (a one-time token was issued on it); that
\* token has expired and is still in the registry, unredeemed.
C17_Witness ==
    /\ last.op = "upload"
    /\ last.tok = UPLOAD_TOKEN
    /\ last.res = "writing"
    /\ last.n = MaxTime
    /\ \E t \in DOMAIN one_time_tokens : one_time_tokens[t] <= last.n /\ redeemed[t] = 0

\* C18: no loss of an authorized delivery.  While a download that was answered
\* with the file has not streamed it to its end, the blob is on disk.
C18_BlobKeptUntilStreamed ==
    \A x \in DOMAIN responses :
        responses[x].pc \in {"response", "streaming"} => responses[x].task_id \in DOMAIN disk

\* C19: a mismatch does not consume.  A download presenting a credential that
\* is in the registry and unexpired, with a task id other than the one it is
\* bound to, is answered Unauthorized; the credential is still in the
\* registry as it was, nothing is recorded as redeemed, and while it has not
\* expired it is accepted for its own task.
C19_MismatchKeepsCredential ==
    [][(/\ last'.op = "download"
        /\ last'.tok \in DOMAIN download_tokens
        /\ download_tokens[last'.tok].expire_at > now
        /\ download_tokens[last'.tok].task_id # last'.task)
       => LET x == last'.tok IN
          /\ last'.res = "Unauthorized"
          /\ x \in DOMAIN download_tokens'
          /\ download_tokens'[x] = download_tokens[x]
          /\ redeemed' = redeemed
          /\ tasks' = tasks
          /\ disk' = disk
          /\ download_tokens[x].expire_at > now' =>
                _authorize_download_token(download_tokens', x, download_tokens[x].task_id,
                                          now', now').res = "ok"
      ]_vars

\* After such an attempt: the credential is in the registry, unexpired and
\* never redeemed, and the task it is bound to is still there with its blob.
C19_Witness ==
    /\ last.op = "download"
    /\ last.res = "Unauthorized"
    /\ last.tok \in DOMAIN download_tokens
    /\ download_tokens[last.tok].task_id # last.task
    /\ download_tokens[last.tok].expire_at > now
    /\ redeemed[last.tok] = 0
    /\ download_tokens[last.tok].task_id \in DOMAIN tasks
    /\ download_tokens[last.tok].task_id \in DOMAIN disk

\* The tasks of the registry whose retention has not run out at n.
UnexpiredTasks(n) == {i \in DOMAIN tasks : tasks[i].created_at + TASK_TTL_SECONDS > n}

\* C20: expiry sweeps are exact.  On the registries of every reachable state
\* and at every clock reading a handler can take there, each sweep removes exactly the entries whose
\* expiry (created_at + TASK_TTL_SECONDS for a task) is <= the reading, and
\* the blobs of exactly the removed tasks.  And in every step of a handler
\* that sweeps, apart from the credential presented and a task asked for
\* whose blob is missing: the entries left are the unexpired ones, unchanged,
\* and the blob of an unexpired task is what it was.
C20_SweepsExact ==
    [][/\ \A n \in ClockReads :
            /\ _cleanup_expired_one_time_tokens(one_time_tokens, n)
                   = UnexpiredUpload(one_time_tokens, n)
            /\ _cleanup_expired_download_tokens(download_tokens, n)
                   = UnexpiredDownload(download_tokens, n)
            /\ _cleanup_expired_tasks(tasks, disk, n).tasks = Restrict(tasks, UnexpiredTasks(n))
            /\ _cleanup_expired_tasks(tasks, disk, n).disk
                   = Restrict(disk, DOMAIN disk \ {tasks[i].file_path :
                                                    i \in DOMAIN tasks \ UnexpiredTasks(n)})
       /\ (last'.op = "upload" /\ UPLOAD_TOKEN # NoHeader /\ last'.tok \notin {NoHeader, UPLOAD_TOKEN})
             => Remove(one_time_tokens', last'.tok)
                    = Remove(UnexpiredUpload(one_time_tokens, now), last'.tok)
       /\ (last'.op = "upload" /\ Admitted(last'))
             => download_tokens' = UnexpiredDownload(download_tokens, last'.n)
       /\ (last'.op = "download" /\ last'.tok # NoHeader)
             => Remove(download_tokens', last'.tok)
                    = Remove(UnexpiredDownload(download_tokens, now), last'.tok)
       /\ (last'.op \in {"upload", "download", "reissue"} /\ Admitted(last'))
             => \A i \in DOMAIN tasks :
                   \/ i = last'.task /\ tasks[i].file_path \notin DOMAIN disk
                   \/ /\ i \in DOMAIN tasks' <=> i \in UnexpiredTasks(last'.n)
                      /\ i \in UnexpiredTasks(last'.n) =>
                            /\ tasks'[i] = tasks[i]
                            /\ tasks[i].file_path \in DOMAIN disk =>
                                  /\ tasks[i].file_path \in DOMAIN disk'
                                  /\ disk'[tasks[i].file_path] = disk[tasks[i].file_path]
                      /\ i \notin UnexpiredTasks(last'.n) => tasks[i].file_path \notin DOMAIN disk'
      ]_vars

\* After an admitted upload: a download credential that expired unredeemed is
\* swept, one that has not expired is kept, and so is the task it is bound
\* to, within retention, with its blob.
C20_Witness ==
    /\ last.op = "upload"
    /\ Admitted(last)
    /\ \E u, v \in DOMAIN issued :
          /\ issued[u].kind = "download"
          /\ redeemed[u] = 0
          /\ TokenExpiry(u) <= last.n
          /\ u \notin DOMAIN download_tokens
          /\ v \in DOMAIN download_tokens
          /\ download_tokens[v].expire_at > last.n
          /\ download_tokens[v].task_id \in UnexpiredTasks(last.n)
          /\ tasks[download_tokens[v].task_id].file_path \in DOMAIN disk
====
